---- MODULE Spec2Model ----
(***************************************************************************)
(* securefiles (src/app.py): an ephemeral file-sharing service.            *)
(*                                                                         *)
(* State: the `files` table of the SQLite database, the upload folder,     *)
(* the wall clock, and the position of every request that is being         *)
(* handled.  Each route handler is a sequence of steps, one per SQL        *)
(* statement it issues, so that requests of different workers interleave   *)
(* between statements exactly where the database lets them.                *)
(*                                                                         *)
(* Time is counted in units of three hours, the shortest validity the      *)
(* upload form offers.  The CSRF token of a posted form is valid and the   *)
(* rate limiter lets every request through; an expiry is stored and read   *)
(* back in the one text format download_file parses.                       *)
(***************************************************************************)
EXTENDS Integers, Sequences, FiniteSets, Bags, TLC

\* ------------------------------------------------------------- bounds
\* last clock value (in units of three hours)
MaxNow == 2
\* cap on the views counter of a row
MaxViews == 2
\* request workers handling requests at the same time
NumWorkers == 2

\* Every statement of the program names one row by its id (WHERE id = ?), so
\* rows of different ids never influence each other: the model follows the
\* share of one id, the first uuid4 that upload_file draws, from before its
\* upload to after its deletion.
FileIds == {1}

\* ------------------------------------------------- values and encodings
\* A column value of the files table: SQLite stores an INTEGER, a TEXT or NULL.
SqlInteger(n) == [t |-> "integer", n |-> n, s |-> ""]
SqlText(s) == [t |-> "text", n |-> 0, s |-> s]
SqlNull == [t |-> "null", n |-> 0, s |-> ""]

\* Python None for a password hash / an expiry time
NoHash == <<>>
NoneTime == -1

\* File bytes are sequences of small numbers; a Fernet token starts with the
\* version byte, written 0 here, followed by the protected payload.
FernetVersion == 0
Encrypt(data) == <<FernetVersion>> \o data
\* decrypt_file is the inverse; no route calls it
Decrypt(token) == IF Len(token) > 0 /\ Head(token) = FernetVersion THEN Tail(token) ELSE <<>>

\* werkzeug.security: a hash is matched by the password it was made from only
generate_password_hash(password) == <<password>>
check_password_hash(hashed, password) == hashed = <<password>>

\* A client-side file name: directory part, stem and extension
ALLOWED_EXTENSIONS == {"txt", "pdf", "png", "jpg", "jpeg", "gif", "zip", "rar"}
allowed_file(filename) == filename.ext # "" /\ filename.ext \in ALLOWED_EXTENSIONS
\* secure_filename drops every directory part and keeps the base name
secure_filename(filename) == [dir |-> "", stem |-> filename.stem, ext |-> filename.ext]

\* Form choices (FileUploadForm)
ExpiryChoices == {"3h", "1d", "1w", "1m"}
MaxDownloadsChoices == {"1", "5", "10", "unlimited"}

\* Validity periods, in units of three hours
ThreeHours == 1
OneDay == 8
OneWeek == 56
OneMonth == 240

get_expiry_time(expiry_option, clock) ==
    CASE expiry_option = "3h" -> clock + ThreeHours
      [] expiry_option = "1d" -> clock + OneDay
      [] expiry_option = "1w" -> clock + OneWeek
      [] expiry_option = "1m" -> clock + OneMonth
      [] OTHER -> NoneTime

\* Column max_downloads has INTEGER affinity: a text that is a well-formed
\* integer literal is stored as that integer, any other text stays TEXT.
IntegerLiterals == ("1" :> 1) @@ ("5" :> 5) @@ ("10" :> 10)
IntegerAffinity(text) ==
    IF text \in DOMAIN IntegerLiterals THEN SqlInteger(IntegerLiterals[text]) ELSE SqlText(text)

\* The stored file name of a share is str(uuid4()): hexadecimal digits and
\* hyphens, so it ends with none of the suffixes preview_file looks for.
ImageSuffixes == {"png", "jpg", "jpeg", "gif"}
UuidEndsWith(file_id, suffixes) == FALSE

\* ------------------------------------------------------------- inputs
PlainPhoto == [dir |-> "..", stem |-> "photo", ext |-> "png"]
Executable == [dir |-> "", stem |-> "run", ext |-> "exe"]
UploadedFiles ==
    { [filename |-> PlainPhoto, data |-> <<1>>],
      [filename |-> PlainPhoto, data |-> <<2>>],
      [filename |-> Executable, data |-> <<1>>] }
\* tokens a client posts: choices of the form and one that is not ("2h")
ExpiryInputs == {"3h", "1d", "2h"}
MaxDownloadsInputs == {"1", "5", "unlimited"}
UploadPasswords == {"", "secret"}
PasswordAttempts == {"", "secret", "wrong"}
Methods == {"GET", "POST"}

\* ------------------------------------------------------------- state
VARIABLES
    files,      \* the files table: id -> row
    blobs,      \* the upload folder: file name (the id) -> bytes on disk
    now,        \* the wall clock
    uuids,      \* how many uuid4 values have been drawn
    reqs,       \* the requests being handled: a bag of [pc, id, row]
    last,       \* the response most recently sent
    created,    \* history: id -> the row as inserted, the bytes and the quota token posted
    delivered   \* history: id -> how many responses carried the file content

vars == <<files, blobs, now, uuids, reqs, last, created, delivered>>

NoName == [dir |-> "", stem |-> "", ext |-> ""]
NoRow == [filename |-> 0, original_filename |-> NoName,
          expiry |-> NoneTime, views |-> 0, max_downloads |-> SqlNull, password |-> NoHash]

\* A request between two of its statements: where it stands, the id it names
\* and the row it has read
Request(pc, file_id, row) == [pc |-> pc, id |-> file_id, row |-> row]
Begin(r) == reqs (+) SetToBag({r})
End(r) == reqs (-) SetToBag({r})
\* a worker is free to take a new request
WorkerFree == BagCardinality(reqs) < NumWorkers

NoResponse ==
    [kind |-> "", id |-> 0, resp |-> "", password |-> "", method |-> "", body |-> <<>>,
     expiry |-> ""]

Response(kind, id, resp, method, password, body) ==
    [kind |-> kind, id |-> id, resp |-> resp, password |-> password, method |-> method, body |-> body,
     expiry |-> ""]

\* the answer to POST /upload, with the expiry token the request posted
UploadResponse(id, resp, expiry_option) ==
    [Response("upload_file", id, resp, "POST", "", <<>>) EXCEPT !.expiry = expiry_option]

Init ==
    /\ files = <<>>
    /\ blobs = <<>>
    /\ now = 0
    /\ uuids = 0
    /\ reqs = EmptyBag
    /\ last = NoResponse
    /\ created = <<>>
    /\ delivered = [i \in FileIds |-> 0]

\* ------------------------------------------------------ SQL statements
SelectRow(db, file_id) == IF file_id \in DOMAIN db THEN db[file_id] ELSE NoRow
RowFound(db, file_id) == file_id \in DOMAIN db
InsertRow(db, file_id, row) == (file_id :> row) @@ db
DeleteRow(db, file_id) == [i \in DOMAIN db \ {file_id} |-> db[i]]
UpdateViews(db, file_id) ==
    IF file_id \in DOMAIN db
    THEN [db EXCEPT ![file_id].views = db[file_id].views + 1]
    ELSE db

\* ------------------------------------------------------------ start-up
\* lines 251-253: every start of the process runs init_db(), whose first
\* statement is DROP TABLE IF EXISTS files (line 80), before app.run().  The
\* table comes back empty; the upload folder and the clock are untouched, and
\* the requests the stopped process was handling are gone with it.
InitDb ==
    /\ files' = <<>>
    /\ reqs' = EmptyBag
    /\ UNCHANGED <<blobs, now, uuids, last, created, delivered>>

\* ------------------------------------------------------------- clock
Tick ==
    /\ now < MaxNow
    /\ now' = now + 1
    /\ UNCHANGED <<files, blobs, uuids, reqs, last, created, delivered>>

\* -------------------------------------------------------- upload_file
\* the form with an expiry field that accepts any posted text
UploadAccepted_AnyExpiry(file, expiry_option, max_downloads) ==
    /\ max_downloads \in MaxDownloadsChoices
    /\ allowed_file(file.filename)

\* form.validate_on_submit() and allowed_file()
UploadAccepted(file, expiry_option, max_downloads) ==
    /\ expiry_option \in ExpiryChoices
    /\ max_downloads \in MaxDownloadsChoices
    /\ allowed_file(file.filename)

\* the request is refused: 'Invalid file upload'
UploadFileRejected ==
    /\ WorkerFree
    /\ \E file \in UploadedFiles, expiry_option \in ExpiryInputs, max_downloads \in MaxDownloadsInputs :
          /\ ~UploadAccepted(file, expiry_option, max_downloads)
          /\ last' = UploadResponse(0, "InvalidUpload", expiry_option)
    /\ UNCHANGED <<files, blobs, now, uuids, reqs, created, delivered>>

\* upload_file committing the row while the file never reaches the upload folder
UploadFile_RowWithoutFile ==
    /\ WorkerFree
    /\ uuids + 1 \in FileIds
    /\ \E file \in UploadedFiles, expiry_option \in ExpiryInputs,
          max_downloads \in MaxDownloadsInputs, password \in UploadPasswords :
          /\ UploadAccepted(file, expiry_option, max_downloads)
          /\ LET file_id == uuids + 1
                 row == [filename |-> file_id,
                         original_filename |-> secure_filename(file.filename),
                         expiry |-> get_expiry_time(expiry_option, now),
                         views |-> 0,
                         max_downloads |-> IntegerAffinity(max_downloads),
                         password |-> IF password # "" THEN generate_password_hash(password) ELSE NoHash]
             IN /\ uuids' = file_id
                /\ files' = InsertRow(files, file_id, row)
                /\ created' = (file_id :> [row |-> row, data |-> file.data,
                                            max_downloads |-> max_downloads]) @@ created
                /\ last' = UploadResponse(file_id, "Uploaded", expiry_option)
    /\ UNCHANGED <<blobs, now, reqs, delivered>>

\* lines 157-181: draw the id, build the row, save and encrypt the file, INSERT
\* the row and commit.  Every other handler reads the table before it touches
\* the upload folder, so the file written ahead of its row is seen by no one
\* and the handler is one step.
UploadFile ==
    /\ WorkerFree
    /\ uuids + 1 \in FileIds
    /\ \E file \in UploadedFiles, expiry_option \in ExpiryInputs,
          max_downloads \in MaxDownloadsInputs, password \in UploadPasswords :
          /\ UploadAccepted(file, expiry_option, max_downloads)
          /\ LET file_id == uuids + 1
                 row == [filename |-> file_id,
                         original_filename |-> secure_filename(file.filename),
                         expiry |-> get_expiry_time(expiry_option, now),
                         views |-> 0,
                         max_downloads |-> IntegerAffinity(max_downloads),
                         password |-> IF password # "" THEN generate_password_hash(password) ELSE NoHash]
             IN /\ uuids' = file_id
                /\ blobs' = (file_id :> Encrypt(file.data)) @@ blobs
                /\ files' = InsertRow(files, file_id, row)
                /\ created' = (file_id :> [row |-> row, data |-> file.data,
                                            max_downloads |-> max_downloads]) @@ created
                /\ last' = UploadResponse(file_id, "Uploaded", expiry_option)
    /\ UNCHANGED <<now, reqs, delivered>>

\* lines 168-177 when the INSERT raises (sqlite3.OperationalError: the database
\* is locked past the connection timeout, or the disk is full) or the process
\* stops after encrypt_file: the file is in the upload folder, upload_file has
\* no except or finally clause, and the request ends as a server error with no
\* row stored.
UploadFileInsertFails ==
    /\ WorkerFree
    /\ uuids + 1 \in FileIds
    /\ \E file \in UploadedFiles, expiry_option \in ExpiryInputs,
          max_downloads \in MaxDownloadsInputs :
          /\ UploadAccepted(file, expiry_option, max_downloads)
          /\ LET file_id == uuids + 1
             IN /\ uuids' = file_id
                /\ blobs' = (file_id :> Encrypt(file.data)) @@ blobs
                /\ last' = UploadResponse(file_id, "ServerError", expiry_option)
    /\ UNCHANGED <<files, now, reqs, created, delivered>>

\* ------------------------------------------------------ download_file
\* PasswordForm.validate_on_submit(): a POST whose password field is filled
\* (DataRequired)
PasswordFormValid(method, password) == method = "POST" /\ password # ""

\* Lines 193-223 on the row that was read: the page the request is answered with.
\* Subtracting views from a TEXT max_downloads raises TypeError (a 500 response),
\* as does parsing an expiry that is None.
DownloadFileOutcome(row, clock, method, password) ==
    IF row.expiry = NoneTime THEN "ServerError"
    ELSE IF clock > row.expiry THEN "Expired"
    ELSE IF row.max_downloads.t = "text" THEN "ServerError"
    ELSE IF row.max_downloads.t = "integer" /\ row.max_downloads.n - row.views <= 0
         THEN "QuotaExhausted"
    ELSE IF PasswordFormValid(method, password) /\ row.password # NoHash
            /\ ~check_password_hash(row.password, password)
         THEN "WrongPassword"
    ELSE IF row.password # NoHash /\ method = "GET" THEN "PasswordRequired"
    ELSE "StatusPage"

\* Mutant of DownloadFileWrites: a refused password is counted as a download
DownloadFileWrites_CountsFailedAttempt(db, file_id, outcome) ==
    IF outcome \in {"Expired", "QuotaExhausted"} THEN DeleteRow(db, file_id)
    ELSE IF outcome \in {"WrongPassword", "PasswordRequired"} THEN UpdateViews(db, file_id)
    ELSE db

\* The statements download_file issues for an outcome: lines 197 and 205
\* download_file counting each display of the status page as a view
DownloadFileWrites_CountsPageView(db, file_id, outcome) ==
    IF outcome \in {"Expired", "QuotaExhausted"} THEN DeleteRow(db, file_id)
    ELSE IF outcome = "StatusPage" THEN UpdateViews(db, file_id)
    ELSE db

DownloadFileWrites(db, file_id, outcome) ==
    IF outcome \in {"Expired", "QuotaExhausted"} THEN DeleteRow(db, file_id) ELSE db

\* lines 187-190 and 224-226: SELECT the row; no row is answered at once
DownloadFileSelect ==
    /\ WorkerFree
    /\ \E file_id \in FileIds :
          IF RowFound(files, file_id)
          THEN /\ reqs' = Begin(Request("decide", file_id, SelectRow(files, file_id)))
               /\ UNCHANGED last
          ELSE /\ \E method \in Methods, password \in PasswordAttempts :
                     /\ method = "GET" => password = ""
                     /\ last' = Response("download_file", file_id, "NotFound", method, password, <<>>)
               /\ UNCHANGED reqs
    /\ UNCHANGED <<files, blobs, now, uuids, created, delivered>>

\* lines 193-223: read the clock, decide, DELETE the row if it is over.  The
\* method and the password field of the request are first looked at here.
DownloadFileDecide(r) ==
    /\ BagIn(r, reqs)
    /\ r.pc = "decide"
    /\ \E method \in Methods, password \in PasswordAttempts :
          /\ method = "GET" => password = ""
          /\ LET outcome == DownloadFileOutcome(r.row, now, method, password)
             IN /\ files' = DownloadFileWrites(files, r.id, outcome)
                /\ last' = Response("download_file", r.id, outcome, method, password, <<>>)
    /\ reqs' = End(r)
    /\ UNCHANGED <<blobs, now, uuids, created, delivered>>

\* ---------------------------------------------------- download_direct
\* Mutant of DownloadDirectSelect: the handler goes on without looking at
\* whether the SELECT returned a row
DownloadDirectSelect_NoRowCheck ==
    /\ WorkerFree
    /\ \E file_id \in FileIds : reqs' = Begin(Request("update", file_id, NoRow))
    /\ UNCHANGED <<files, blobs, now, uuids, last, created, delivered>>

\* lines 231-233, 238-240: SELECT original_filename; no row is answered at once
DownloadDirectSelect ==
    /\ WorkerFree
    /\ \E file_id \in FileIds :
          IF RowFound(files, file_id)
          THEN /\ reqs' = Begin(Request("update", file_id, NoRow))
               /\ UNCHANGED last
          ELSE /\ last' = Response("download_direct", file_id, "NotFound", "GET", "", <<>>)
               /\ UNCHANGED reqs
    /\ UNCHANGED <<files, blobs, now, uuids, created, delivered>>

\* send_from_directory: the bytes of the file as they are on disk, or 404
SendFromDirectory(folder, file_id) ==
    IF file_id \in DOMAIN folder THEN folder[file_id] ELSE <<>>

\* lines 235-237: UPDATE views, commit, send the file.  No request changes a
\* file of the upload folder once its row is inserted, so the UPDATE and the
\* read of the file are one step.
DownloadDirectSend(r) ==
    /\ BagIn(r, reqs)
    /\ r.pc = "update"
    /\ LET file_id == r.id
       IN /\ RowFound(files, file_id) => files[file_id].views < MaxViews
          /\ files' = UpdateViews(files, file_id)
          /\ IF file_id \in DOMAIN blobs
             THEN /\ last' = Response("download_direct", file_id, "Delivered", "GET", "",
                                      SendFromDirectory(blobs, file_id))
                  /\ delivered' = [delivered EXCEPT ![file_id] = @ + 1]
             ELSE /\ last' = Response("download_direct", file_id, "NotFound", "GET", "", <<>>)
                  /\ UNCHANGED delivered
    /\ reqs' = End(r)
    /\ UNCHANGED <<blobs, now, uuids, created>>

\* ------------------------------------------------------- preview_file
\* Mutant of PreviewFile: a preview of a row that exists is counted as a view
PreviewFile_CountsView ==
    /\ WorkerFree
    /\ \E file_id \in FileIds :
          IF RowFound(files, file_id)
          THEN /\ files' = UpdateViews(files, file_id)
               /\ last' = Response("preview_file", file_id, "NoPreview", "GET", "", <<>>)
          ELSE /\ last' = Response("preview_file", file_id, "NotFound", "GET", "", <<>>)
               /\ UNCHANGED files
    /\ UNCHANGED <<blobs, now, uuids, reqs, created, delivered>>

\* lines 131-151: one SELECT, then the file, a redirect to download_file, or
\* the not-found page
PreviewFile ==
    /\ WorkerFree
    /\ \E file_id \in FileIds :
          IF RowFound(files, file_id)
          THEN LET filename == SelectRow(files, file_id).filename
               IN IF UuidEndsWith(filename, ImageSuffixes) \/ UuidEndsWith(filename, {"pdf"})
                  THEN /\ last' = Response("preview_file", file_id, "Delivered", "GET", "",
                                           SendFromDirectory(blobs, filename))
                       /\ delivered' = [delivered EXCEPT ![file_id] = @ + 1]
                  ELSE /\ last' = Response("preview_file", file_id, "NoPreview", "GET", "", <<>>)
                       /\ UNCHANGED delivered
          ELSE /\ last' = Response("preview_file", file_id, "NotFound", "GET", "", <<>>)
               /\ UNCHANGED delivered
    /\ UNCHANGED <<files, blobs, now, uuids, reqs, created>>

\* a request in flight takes its next step
DownloadFileDecides == \E r \in BagToSet(reqs) : DownloadFileDecide(r)
DownloadDirectSends == \E r \in BagToSet(reqs) : DownloadDirectSend(r)

Next ==
    \/ InitDb
    \/ Tick
    \/ UploadFileRejected
    \/ UploadFile
    \/ UploadFileInsertFails
    \/ DownloadFileSelect
    \/ DownloadFileDecides
    \/ DownloadDirectSelect
    \/ DownloadDirectSends
    \/ PreviewFile

Spec == Init /\ [][Next]_vars

\* --------------------------------------------- the upload folder as a fault
\* UPLOAD_FOLDER ('/app/data') is a directory outside the program's control: a
\* file can go missing from it (volume not kept across a redeploy, cleanup by
\* an operator) while its row is still in the table.
UploadFolderLosesFile ==
    /\ \E f \in DOMAIN blobs : blobs' = [g \in DOMAIN blobs \ {f} |-> blobs[g]]
    /\ UNCHANGED <<files, now, uuids, reqs, last, created, delivered>>

NextWithFileLoss ==
    \/ Next
    \/ UploadFolderLosesFile

SpecWithFileLoss == Init /\ [][NextWithFileLoss]_vars

\* ------------------------------------------------------------- claims
Deleted(file_id) == file_id \in DOMAIN created /\ ~RowFound(files, file_id)
Protected(file_id) == file_id \in DOMAIN created /\ created[file_id].row.password # NoHash
Refusals == {"NotFound", "Expired", "QuotaExhausted"}

\* C1: for a share whose max_downloads is a number N, the views counter never
\* exceeds N and at most N responses ever carry the file content.
C1_QuotaNeverExceeded ==
    \A i \in DOMAIN created :
        created[i].row.max_downloads.t = "integer" =>
            /\ delivered[i] <= created[i].row.max_downloads.n
            /\ RowFound(files, i) => files[i].views <= created[i].row.max_downloads.n

\* C2: on a share with max_downloads = 1, once one request has been answered
\* with the content, every other content request, however its statements
\* interleave with the first one's, is answered QuotaExhausted or NotFound.
C2_OneDeliveryPerRace ==
    [][\A r \in BagToSet(reqs) :
          ( /\ DownloadDirectSend(r)
            /\ r.id \in DOMAIN created
            /\ created[r.id].row.max_downloads = SqlInteger(1)
            /\ delivered[r.id] >= 1 )
          => last'.resp \in {"QuotaExhausted", "NotFound"}]_vars

\* C3: an access request (download_file, download_direct) that is answered at a
\* clock value at or after the expiry of the row it names is answered Expired
\* and carries no content.
C3_ExpiredFromExpiryOn ==
    [][\A r \in BagToSet(reqs) :
          ( /\ DownloadFileDecide(r) \/ DownloadDirectSend(r)
            /\ RowFound(files, r.id)
            /\ now >= files[r.id].expiry )
          => last'.resp = "Expired" /\ delivered' = delivered]_vars

\* C4: the content of a share created with a password is delivered only to a
\* request that supplied the matching password.
C4_ContentNeedsPassword ==
    (last.resp = "Delivered" /\ Protected(last.id))
        => check_password_hash(created[last.id].row.password, last.password)

\* C5: a download_file request on a password-protected row that carries no
\* password or a non-matching one changes no field of any row (views included);
\* the row goes away only if that same request finds it expired or exhausted.
C5_FailedPasswordKeepsRow ==
    [][\A r \in BagToSet(reqs) :
          ( /\ DownloadFileDecide(r)
            /\ r.row.password # NoHash
            /\ ~check_password_hash(r.row.password, last'.password) )
          => /\ \A i \in DOMAIN files' : i \in DOMAIN files /\ files'[i] = files[i]
             /\ last'.resp \notin {"Expired", "QuotaExhausted"} => files' = files]_vars

\* C5 witness: a wrong password was answered on a row that has been downloaded
C5_Witness ==
    /\ last.kind = "download_file"
    /\ last.resp = "WrongPassword"
    /\ RowFound(files, last.id)
    /\ files[last.id].views >= 1

\* C6: the bytes a response delivers are the bytes that were uploaded, not
\* their encrypted form.
C6_RoundTrip ==
    (last.resp = "Delivered" /\ last.id \in DOMAIN created)
        => last.body = created[last.id].data

\* C7: after download_file has answered Expired or QuotaExhausted for an id,
\* neither the row nor the stored file of that id exists.
C7_LazyDeletionRemovesBoth ==
    (last.kind = "download_file" /\ last.resp \in {"Expired", "QuotaExhausted"})
        => ~RowFound(files, last.id) /\ last.id \notin DOMAIN blobs

\* C8: a request (download_file, download_direct, preview_file) that arrives
\* once the row of its id has been deleted is answered at once, with NotFound,
\* Expired or QuotaExhausted, and delivers nothing.
C8_NoDeliveryAfterDeletion ==
    [][(DownloadFileSelect \/ DownloadDirectSelect \/ PreviewFile) =>
          /\ \A r \in BagToSet(reqs') : Deleted(r.id) => CopiesIn(r, reqs') = CopiesIn(r, reqs)
          /\ (reqs' = reqs /\ Deleted(last'.id)) =>
                 last'.resp \in Refusals /\ delivered' = delivered]_vars

\* C8 witness: a content request was refused on a share that had been
\* delivered and then deleted
C8_Witness ==
    /\ last.kind = "download_direct"
    /\ last.resp = "NotFound"
    /\ Deleted(last.id)
    /\ delivered[last.id] >= 1

\* C9: a share created with the token "unlimited" is stored with a NULL quota,
\* and every download_file request on it while it is unexpired ends with the
\* status page or the password prompt.
C9_UnlimitedHasNoQuota ==
    [][\A r \in BagToSet(reqs) :
          ( /\ DownloadFileDecide(r)
            /\ r.id \in DOMAIN created
            /\ created[r.id].max_downloads = "unlimited"
            /\ now <= r.row.expiry )
          => /\ r.row.max_downloads = SqlNull
             /\ last'.resp \in {"StatusPage", "PasswordRequired", "WrongPassword"}]_vars

\* C10: a preview request, whatever it is answered with, leaves every row in
\* the table with the views value it had.
C10_PreviewKeepsViews ==
    [][PreviewFile =>
          \A i \in DOMAIN files : i \in DOMAIN files' /\ files'[i].views = files[i].views]_vars

\* C10 witness: a preview was answered on a row that has been downloaded
C10_Witness ==
    /\ last.kind = "preview_file"
    /\ last.resp = "NoPreview"
    /\ RowFound(files, last.id)
    /\ files[last.id].views >= 1

\* C11: a preview request on a row whose expiry has passed is answered
\* Expired, a preview request on a password-protected row carries no content,
\* and no preview response carries the content of a row that download_file
\* would refuse.
C11_PreviewChecksValidity ==
    [][\A i \in DOMAIN files :
          (PreviewFile /\ last'.id = i)
          => /\ now > files[i].expiry => last'.resp = "Expired"
             /\ files[i].password # NoHash => last'.body = <<>>
             /\ DownloadFileOutcome(files[i], now, "GET", "") \in Refusals
                   => last'.body = <<>>]_vars

\* C12: every file in the upload folder belongs to a row that is in the table
\* or was committed to it: an upload that stops after writing the file and
\* before its INSERT commits leaves no file behind.
C12_UploadAllOrNothing ==
    \A f \in DOMAIN blobs : f \in DOMAIN created

\* C13: an upload request whose expiry token is none of "3h", "1d", "1w",
\* "1m" is refused and changes neither the table nor the upload folder, and no
\* row is ever stored with a null expiry.
C13_BadExpiryRejected ==
    [][( /\ UploadFileRejected \/ UploadFile \/ UploadFileInsertFails
         /\ last'.expiry \notin ExpiryChoices )
       => /\ last'.resp = "InvalidUpload"
          /\ UNCHANGED <<files, blobs, uuids, created>>
          /\ \A i \in DOMAIN files' : files'[i].expiry # NoneTime]_vars

\* C13 witness: an upload posting the token "2h" was refused, nothing stored
C13_Witness ==
    /\ last.kind = "upload_file"
    /\ last.expiry = "2h"
    /\ last.resp = "InvalidUpload"
    /\ files = <<>>
    /\ blobs = <<>>

\* C14: download_file tests the expiry before anything else: a request on a
\* row that is expired (clock at or past its expiry) and also out of quota, or
\* password-protected with no or a wrong password supplied, is answered
\* Expired, not QuotaExhausted, PasswordRequired or WrongPassword.
C14_ExpiryCheckedFirst ==
    [][\A r \in BagToSet(reqs) :
          ( /\ DownloadFileDecide(r)
            /\ last'.id = r.id
            /\ now >= r.row.expiry
            /\ \/ /\ r.row.max_downloads.t = "integer"
                  /\ r.row.max_downloads.n - r.row.views <= 0
               \/ /\ r.row.password # NoHash
                  /\ ~check_password_hash(r.row.password, last'.password) )
          => last'.resp = "Expired"]_vars

\* C15: on a password-protected row, a download_file request that supplies no
\* password (a GET, or a POST whose password field is empty) is answered
\* PasswordRequired when the row is neither expired nor out of quota, and the
\* status page is returned only to a request carrying the matching password.
C15_NoPasswordNoStatusPage ==
    (last.kind = "download_file" /\ Protected(last.id))
        => /\ last.resp = "StatusPage"
                => check_password_hash(created[last.id].row.password, last.password)
           /\ last.password = ""
                => last.resp \in {"PasswordRequired", "Expired", "QuotaExhausted",
                                  "NotFound", "ServerError"}

\* C16: views counts deliveries and nothing else: a download_direct request that
\* finds the row but not its file is answered CorruptedShare, the row is
\* deleted, and after every step the views of each row in the table equals the
\* number of responses that delivered that row's content.
C16_ViewsCountDeliveries ==
    [][/\ \A r \in BagToSet(reqs) :
             ( /\ DownloadDirectSend(r)
               /\ RowFound(files, r.id)
               /\ r.id \notin DOMAIN blobs )
             => /\ last'.resp = "CorruptedShare"
                /\ ~RowFound(files', r.id)
       /\ \A i \in DOMAIN files' : files'[i].views = delivered'[i]]_vars

\* C17: a download_direct request that read the row before download_file
\* deleted it, and runs its UPDATE after that DELETE, is answered NotFound and
\* carries no content.
C17_UpdateAfterDeleteNotFound ==
    [][\A r \in BagToSet(reqs) :
          (DownloadDirectSend(r) /\ Deleted(r.id))
          => /\ last'.resp = "NotFound"
             /\ last'.body = <<>>
             /\ delivered' = delivered]_vars

\* C18: a row leaves the table only in a download_file step that observed its
\* expiry or the exhaustion of its quota; no other step, in particular init_db
\* at start-up, upload_file, preview_file or download_direct, removes a row.
C18_OnlyLazyDeletionRemoves ==
    [][\A i \in DOMAIN files :
          i \notin DOMAIN files'
          => /\ DownloadFileDecides
             /\ last'.kind = "download_file"
             /\ last'.id = i
             /\ last'.resp \in {"Expired", "QuotaExhausted"}]_vars

\* C19: a row in the table changes only by views growing by one in a
\* download_direct step: no step changes its filename, original_filename,
\* expiry, max_downloads or password, views never decreases, and a row enters
\* the table with views = 0.
C19_OnlyViewsIncrement ==
    [][\A i \in DOMAIN files' :
          IF i \in DOMAIN files
          THEN /\ [files'[i] EXCEPT !.views = 0] = [files[i] EXCEPT !.views = 0]
               /\ \/ files'[i].views = files[i].views
                  \/ /\ files'[i].views = files[i].views + 1
                     /\ DownloadDirectSends
                     /\ last'.kind = "download_direct"
          ELSE files'[i].views = 0]_vars

\* C19 witness: a row that download_direct has incremented is in the table
\* with the columns it was inserted with
C19_Witness ==
    /\ last.kind = "download_direct"
    /\ last.resp = "Delivered"
    /\ RowFound(files, last.id)
    /\ files[last.id].views >= 1
    /\ [files[last.id] EXCEPT !.views = 0] = created[last.id].row

\* C20: every row in the table has its file in the upload folder, and the
\* file a row names is named by no other row: the filename column of a row is
\* the row's own id.
C20_RowHasItsOwnFile ==
    /\ \A i \in DOMAIN files :
          /\ files[i].filename \in DOMAIN blobs
          /\ files[i].filename = i
    /\ \A i, j \in DOMAIN files : files[i].filename = files[j].filename => i = j

\* C20 witness: after a download and a display of the status page the row is
\* in the table and its file is in the upload folder
C20_Witness ==
    /\ last.kind = "download_file"
    /\ last.resp = "StatusPage"
    /\ RowFound(files, last.id)
    /\ delivered[last.id] >= 1
    /\ files[last.id].filename \in DOMAIN blobs
====
